---- MODULE Spec2Model ----
(***************************************************************************)
(* Model of src/ocr.py: the decision and fusion engine that picks one      *)
(* rotation per group, the best source variant per field, repairs the      *)
(* recognized text and classifies the group.                               *)
(*                                                                         *)
(* Representation.                                                         *)
(*  - A text is a sequence of one-character strings.  The characters that  *)
(*    are not ASCII are named: "A_circ" is U+00C2, "a_circ" is U+00E2 and  *)
(*    "deg" is U+00B0 (the literal at src/ocr.py:121 is U+00C2 U+00B0).    *)
(*  - A confidence, a score and a bonus are integers in hundredths         *)
(*    (0.70 is 70, 0.05 is 5).                                             *)
(*  - A Python float that was parsed from a decimal string is the record   *)
(*    [n, k] standing for n / 10^k, with no trailing zero in the fraction. *)
(*  - An optional value is a record with the field "some"; None is the     *)
(*    record whose "some" is FALSE.                                        *)
(*  - The recognizer is the environment: every call of ocr_once returns    *)
(*    any sample of a bounded set.                                         *)
(***************************************************************************)
EXTENDS Integers, Sequences, FiniteSets, TLC

VARIABLES
  \* pure-function harness
  fn, txt, res,
  \* main(): the scan result, the loop position and the outputs
  groups, gi, pc, out, ok, bad,
  \* main(): locals of one loop iteration
  imgsOk, rot, rot_reason, fieldBest,
  \* choose_rotation(): the frame
  ri, si, best, probe, sc_sum, hint_scores, ret,
  \* read_field_best(): the frame
  rf_field, rf_rot, rf_si, rf_best,
  \* history: recognizer calls of the current group, rotation used by each
  \* field read, sign-prefix summary of the angle samples seen per rotation,
  \* hint-bearing samples returned so far in the voting tier
  \* (nHints), the sample the last recognizer call returned, the score_key
  \* of each sample of the running field read
  nCalls, readAt, sampleSign, nHints, last, rf_keys

vars == <<fn, txt, res, groups, gi, pc, out, ok, bad, imgsOk, rot, rot_reason,
          fieldBest, ri, si, best, probe, sc_sum, hint_scores, ret,
          rf_field, rf_rot, rf_si, rf_best, nCalls, readAt, sampleSign, nHints,
          last, rf_keys>>

textVars == <<fn, txt, res>>

mainVars == <<groups, gi, pc, out, ok, bad, imgsOk, rot, rot_reason,
              fieldBest, ri, si, best, probe, sc_sum, hint_scores, ret,
              rf_field, rf_rot, rf_si, rf_best, nCalls, readAt, sampleSign,
              nHints, last, rf_keys>>

----------------------------------------------------------------------------
(* Program constants (hundredths for the score, units for the limits).     *)

SCORE_THRESHOLD == 70

ANGLE_LIMIT_ABS == 100

TEMP_MAX == 80

ROTATIONS == <<0, 90, -90, 180>>

SOURCES == <<"sr", "v7", "v8">>

FIELDS == <<"angle", "temp", "depth">>

required ==
  <<"angle_sr", "angle_v7", "angle_v8",
    "temp_sr", "temp_v7", "temp_v8",
    "depth_sr", "depth_v7", "depth_v8">>

----------------------------------------------------------------------------
(* Bounds of the model.                                                    *)

\* longest text of the pure-function harness
MaxLen == 4

\* most hint-bearing samples the recognizer returns in one voting tier
MaxHints == 2

----------------------------------------------------------------------------
(* Characters and strings.                                                 *)

Digits == {"0", "1", "2", "3", "4", "5", "6", "7", "8", "9"}

IsDigit(c) == c \in Digits

DigitVal(c) ==
  CASE c = "0" -> 0 [] c = "1" -> 1 [] c = "2" -> 2 [] c = "3" -> 3
    [] c = "4" -> 4 [] c = "5" -> 5 [] c = "6" -> 6 [] c = "7" -> 7
    [] c = "8" -> 8 [] c = "9" -> 9 [] OTHER -> 0

IsSign(c) == c \in {"+", "-"}

\* str.lower() on one character
LowerChar(c) ==
  CASE c = "C" -> "c"
    [] c = "M" -> "m"
    [] c = "X" -> "x"
    [] c = "A_circ" -> "a_circ"
    [] OTHER -> c

Lower(t) == [i \in DOMAIN t |-> LowerChar(t[i])]

\* t.replace(" ", "")
RemoveSpaces(t) == SelectSeq(t, LAMBDA c : c # " ")

\* t.strip()
RECURSIVE LStrip(_)
LStrip(t) == IF t # <<>> /\ Head(t) = " " THEN LStrip(Tail(t)) ELSE t

RECURSIVE RStrip(_)
RStrip(t) ==
  IF t # <<>> /\ t[Len(t)] = " " THEN RStrip(SubSeq(t, 1, Len(t) - 1)) ELSE t

Strip(t) == RStrip(LStrip(t))

\* c in t
HasChar(t, c) == \E i \in DOMAIN t : t[i] = c

\* sub in t, for a string sub
HasSub(t, sub) ==
  \E i \in 1..(Len(t) - Len(sub) + 1) : SubSeq(t, i, i + Len(sub) - 1) = sub

SetMax(S) == CHOOSE x \in S : \A y \in S : y <= x

\* number of consecutive digits of t from position i on
DigitsRun(t, i) ==
  SetMax({n \in 0..(Len(t) - i + 1) : \A j \in i..(i + n - 1) : IsDigit(t[j])})

\* position after the greedy match of \d+(\.\d+)? that starts at digit i
NumEnd(t, i) ==
  LET j == i + DigitsRun(t, i)
  IN  IF j < Len(t) /\ t[j] = "." /\ DigitsRun(t, j + 1) > 0
        THEN j + 1 + DigitsRun(t, j + 1)
        ELSE j

RECURSIVE Pow10(_)
Pow10(k) == IF k = 0 THEN 1 ELSE 10 * Pow10(k - 1)

\* int(s) of a digit string
RECURSIVE DigitsValue(_)
DigitsValue(s) ==
  IF s = <<>> THEN 0
  ELSE 10 * DigitsValue(SubSeq(s, 1, Len(s) - 1)) + DigitVal(s[Len(s)])

----------------------------------------------------------------------------
(* Optional values and floats.                                             *)

NoneStr == [some |-> FALSE, val |-> <<>>]

SomeStr(s) == [some |-> TRUE, val |-> s]

NoneNum == [some |-> FALSE, n |-> 0, k |-> 0]

\* the float n / 10^k without trailing zeros in the fraction
RECURSIVE Dec(_, _)
Dec(n, k) ==
  IF k > 0 /\ n % 10 = 0 THEN Dec(n \div 10, k - 1)
  ELSE [some |-> TRUE, n |-> n, k |-> k]

\* a <= b for a float a and an integer b
DecLeqInt(a, b) == a.n <= b * Pow10(a.k)

\* a <= b for two floats
DecLeq(a, b) == a.n * Pow10(b.k) <= b.n * Pow10(a.k)

\* float(s) of a string of digits and dots: None stands for ValueError
ParseFloat(s) ==
  LET dots == {i \in DOMAIN s : s[i] = "."}
  IN  IF Cardinality(dots) > 1 \/ Len(s) - Cardinality(dots) = 0 THEN NoneNum
      ELSE IF dots = {} THEN Dec(DigitsValue(s), 0)
      ELSE LET d == CHOOSE i \in dots : TRUE
               ip == SubSeq(s, 1, d - 1)
               fp == SubSeq(s, d + 1, Len(s))
           IN  Dec(DigitsValue(ip \o fp), Len(fp))

----------------------------------------------------------------------------
(* Text Normalizer, Candidate Scorer and Field Repair Rules.               *)

\* re.search(r"[+-]?\d+(\.\d+)?", t): the leftmost match, taken greedily
extract_num_str(t0) ==
  IF t0 = <<>> THEN NoneStr
  ELSE LET t == RemoveSpaces(t0)
           starts == {i \in DOMAIN t :
                        \/ IsDigit(t[i])
                        \/ IsSign(t[i]) /\ i < Len(t) /\ IsDigit(t[i + 1])}
       IN  IF starts = {} THEN NoneStr
           ELSE LET i == CHOOSE x \in starts : \A y \in starts : x <= y
                    d == IF IsSign(t[i]) THEN i + 1 ELSE i
                IN  SomeStr(SubSeq(t, i, NumEnd(t, d) - 1))

\* re.match(r"^[+-]\d", t) on the text without spaces
sign_first(t0) ==
  LET t == RemoveSpaces(t0)
  IN  Len(t) >= 2 /\ IsSign(t[1]) /\ IsDigit(t[2])

\* the literal of src/ocr.py:121: U+00C2 followed by U+00B0
DegreeGlyph == <<"A_circ", "deg">>

has_temp_hint(t0) ==
  LET t == Lower(t0)
  IN  HasChar(t, "c") \/ HasSub(t, DegreeGlyph)

has_depth_hint(t0) ==
  LET t == Lower(t0)
  IN  HasChar(t, "m")

\* whether s is sign? digits (. digits)? from end to end
IsNumStr(s) ==
  /\ s # <<>>
  /\ LET d == IF IsSign(s[1]) THEN 2 ELSE 1
     IN  /\ d <= Len(s)
         /\ IsDigit(s[d])
         /\ NumEnd(s, d) = Len(s) + 1

\* whether float(s) succeeds, for an unsigned s without spaces
FloatOk(s) ==
  /\ \A i \in DOMAIN s : IsDigit(s[i]) \/ s[i] = "."
  /\ ParseFloat(s).some

normalize_angle(num) ==
  IF ~num.some \/ num.val = <<>> THEN NoneStr
  ELSE LET s0 == RemoveSpaces(num.val)
           s == IF s0 # <<>> /\ IsSign(s0[1]) THEN s0 ELSE <<"+">> \o s0
       IN  IF ~FloatOk(Tail(s)) THEN NoneStr
           ELSE IF ~DecLeqInt(ParseFloat(Tail(s)), ANGLE_LIMIT_ABS) THEN NoneStr
           ELSE SomeStr(s)

depth_valid(num) ==
  IF ~num.some \/ num.val = <<>> THEN FALSE
  ELSE LET s0 == Strip(num.val)
           s1 == IF s0 # <<>> /\ IsSign(s0[1]) THEN Tail(s0) ELSE s0
           s == RemoveSpaces(s1)
       IN  /\ s # <<>>
           /\ ~IsSign(s[1])
           /\ IsNumStr(s)
           /\ DigitsRun(s, 1) <= 3

\* the candidates of a digit string of length >= 3, in the order built
TempCandidates(s) ==
  LET two == <<Dec(DigitsValue(SubSeq(s, 1, 2)), 0),
               Dec(DigitsValue(SubSeq(s, Len(s) - 1, Len(s))), 0)>>
  IN  IF Len(s) = 3
        THEN Append(two, Dec(DigitsValue(s), 1))
        ELSE two

\* min(valid)
RECURSIVE SeqMin(_)
SeqMin(q) ==
  IF Len(q) = 1 THEN q[1]
  ELSE LET m == SeqMin(Tail(q))
       IN  IF DecLeq(q[1], m) THEN q[1] ELSE m

\* a variant of TempPick that never prefers the decimal candidate
TempPickMin(s) ==
  LET valid == SelectSeq(TempCandidates(s), LAMBDA c : DecLeqInt(c, TEMP_MAX))
  IN  IF valid = <<>> THEN NoneNum ELSE SeqMin(valid)

TempPick(s) ==
  LET valid == SelectSeq(TempCandidates(s), LAMBDA c : DecLeqInt(c, TEMP_MAX))
      decimals == SelectSeq(valid, LAMBDA v : v.k > 0)
  IN  IF valid = <<>> THEN NoneNum
      ELSE IF decimals # <<>> THEN decimals[1]
      ELSE SeqMin(valid)

TempBound(v) == IF v.some /\ DecLeqInt(v, TEMP_MAX) THEN v ELSE NoneNum

repair_temp(num) ==
  IF ~num.some \/ num.val = <<>> THEN NoneNum
  ELSE LET s0 == Strip(num.val)
           s1 == IF s0 # <<>> /\ IsSign(s0[1]) THEN Tail(s0) ELSE s0
           s == SelectSeq(RemoveSpaces(s1), LAMBDA c : IsDigit(c) \/ c = ".")
       IN  IF s = <<>> THEN NoneNum
           ELSE IF HasChar(s, ".") THEN TempBound(ParseFloat(s))
           ELSE IF Len(s) <= 2 THEN TempBound(Dec(DigitsValue(s), 0))
           ELSE TempPick(s)

score_key(t0, score) ==
  LET t == RemoveSpaces(t0)
  IN  score
        + (IF extract_num_str(t).some THEN 5 ELSE 0)
        + (IF HasChar(t, ".") THEN 5 ELSE 0)
        + (IF sign_first(t) THEN 8 ELSE 0)

----------------------------------------------------------------------------
(* The recognizer's outputs and the scan results the model draws from.     *)

Sample(t, c) == [txt |-> t, sc |-> c]

AngleSamples ==
  {Sample(<<>>, 0),
   Sample(<<"+", "1">>, 60),
   Sample(<<"+", "1">>, 80),
   Sample(<<"1", "2", "0">>, 85)}

TempSamples ==
  {Sample(<<>>, 0),
   Sample(<<"3", "7", "5">>, 80),
   Sample(<<"8", "C">>, 60),
   Sample(<<"9", "6", "3">>, 90)}

DepthSamples ==
  {Sample(<<>>, 0),
   Sample(<<"1", "2", ".", "5">>, 80),
   Sample(<<"5", "m">>, 0),
   Sample(<<"1", "2", "3", "4">>, 90)}

Samples(field) ==
  CASE field = "angle" -> AngleSamples
    [] field = "temp" -> TempSamples
    [] field = "depth" -> DepthSamples

FieldSet == {FIELDS[i] : i \in DOMAIN FIELDS}

RequiredSet == {required[i] : i \in DOMAIN required}

Group(id, keys, unreadable) ==
  [id |-> id, keys |-> keys, unreadable |-> unreadable]

FullGroup(id) == Group(id, RequiredSet, {})

\* what scan_groups and the sort hand to the loop, in processing order
ScanResults ==
  {<<>>}
    \cup {<<Group("g1", RequiredSet \ {k}, {})>> : k \in RequiredSet}
    \cup {<<Group("g1", RequiredSet \ {"angle_sr", k}, {})>> : k \in RequiredSet}
    \cup {<<Group("g1", RequiredSet, {k})>> : k \in RequiredSet}
    \cup {<<FullGroup("g1"), Group("g2", RequiredSet \ {"depth_v8"}, {})>>,
          <<Group("g1", RequiredSet, {"temp_v7"}),
            Group("g2", RequiredSet \ {"temp_sr"}, {"angle_sr"})>>}

----------------------------------------------------------------------------
(* choose_rotation, read_field_best and the classification, as functions   *)
(* of the values the loops have gathered.                                  *)

EmptyBest == [txt |-> <<>>, sc |-> 0]

NoneBest == [src |-> "none", txt |-> <<>>, sc |-> 0]

RotIdx == [i \in DOMAIN ROTATIONS |-> i]

\* a variant of Better with >= for >
BetterOrEqual(s, b) == score_key(s.txt, s.sc) >= score_key(b.txt, b.sc)

\* score_key(txt, sc) > score_key(best["txt"], best["sc"])
Better(s, b) == score_key(s.txt, s.sc) > score_key(b.txt, b.sc)

\* max(c, key = ...) of Python: the first of the largest
RECURSIVE PyMaxFrom(_, _, _, _)
PyMaxFrom(c, key, i, b) ==
  IF i > Len(c) THEN b
  ELSE PyMaxFrom(c, key, i + 1, IF key[c[i]] > key[b] THEN c[i] ELSE b)

PyMax(c, key) == PyMaxFrom(c, key, 2, c[1])

ProbeScores(p) == [i \in DOMAIN p |-> p[i].sc]

sign_rots(p) == SelectSeq(RotIdx, LAMBDA i : sign_first(p[i].txt))

\* a variant of Tier1Choice that takes the largest confidence of all rotations
Tier1ChoiceAnyRot(p) ==
  IF sign_rots(p) # <<>>
    THEN <<ROTATIONS[PyMax(RotIdx, ProbeScores(p))], "angle_sign_first">>
    ELSE <<>>

\* tier 1: <<rotation, tag>>, or <<>> when no probe passes sign_first
Tier1Choice(p) ==
  IF sign_rots(p) # <<>>
    THEN <<ROTATIONS[PyMax(sign_rots(p), ProbeScores(p))], "angle_sign_first">>
    ELSE <<>>

\* a variant of HintGain that leaves out the 0.15
HintGainNoBonus(s, hinted) == IF hinted THEN s.sc ELSE 0

\* what one recognized temp or depth sample adds to sc_sum
HintGain(s, hinted) == IF hinted THEN s.sc + 15 ELSE 0

\* a variant of Tier23Choice whose fallback returns the position, not the
\* rotation
Tier23ChoiceIdx(hs, p) ==
  LET best_rot == PyMax(RotIdx, hs)
  IN  IF hs[best_rot] > 0
        THEN <<ROTATIONS[best_rot], "unit_hint">>
        ELSE <<PyMax(RotIdx, ProbeScores(p)), "fallback_best_angle_score">>

\* tiers 2 and 3
Tier23Choice(hs, p) ==
  LET best_rot == PyMax(RotIdx, hs)
  IN  IF hs[best_rot] > 0
        THEN <<ROTATIONS[best_rot], "unit_hint">>
        ELSE <<ROTATIONS[PyMax(RotIdx, ProbeScores(p))],
               "fallback_best_angle_score">>

\* a variant of ReadUpdate that does not record the source
ReadUpdateKeepSrc(b, i, s) ==
  IF Better(s, b) THEN [src |-> b.src, txt |-> s.txt, sc |-> s.sc] ELSE b

\* the loop body of read_field_best for source number i
ReadUpdate(b, i, s) ==
  IF Better(s, b) THEN [src |-> SOURCES[i], txt |-> s.txt, sc |-> s.sc] ELSE b

\* a variant of FieldRot that reads temp and depth unrotated
FieldRotAngleOnly(field) == IF field = "angle" THEN rot ELSE 0

\* the rotation main() passes to read_field_best for a field
FieldRot(field) == rot

\* a variant of MissingKeys that does not look for the last key
MissingKeysButLast(d) ==
  SelectSeq(SubSeq(required, 1, Len(required) - 1), LAMBDA k : k \notin d)

\* missing = [k for k in required if k not in d]
MissingKeys(d) == SelectSeq(required, LAMBDA k : k \notin d)

Finals(fb) ==
  LET angle_num == extract_num_str(fb[1].txt)
      temp_num == extract_num_str(fb[2].txt)
      depth_num == extract_num_str(fb[3].txt)
  IN  [angle |-> normalize_angle(angle_num),
       temp |-> repair_temp(temp_num),
       depth |-> IF depth_valid(depth_num) THEN depth_num ELSE NoneStr]

\* a variant of Mistakes that tests the score of a valid field only
MistakesElif(fin, fb) ==
  (IF ~fin.angle.some THEN <<"angle_invalid">>
   ELSE IF fb[1].sc < SCORE_THRESHOLD THEN <<"angle_low_score">> ELSE <<>>)
    \o (IF ~fin.temp.some THEN <<"temp_invalid">>
        ELSE IF fb[2].sc < SCORE_THRESHOLD THEN <<"temp_low_score">> ELSE <<>>)
    \o (IF ~fin.depth.some THEN <<"depth_invalid">>
        ELSE IF fb[3].sc < SCORE_THRESHOLD THEN <<"depth_low_score">>
        ELSE <<>>)

Mistakes(fin, fb) ==
  (IF ~fin.angle.some THEN <<"angle_invalid">> ELSE <<>>)
    \o (IF ~fin.temp.some THEN <<"temp_invalid">> ELSE <<>>)
    \o (IF ~fin.depth.some THEN <<"depth_invalid">> ELSE <<>>)
    \o (IF fb[1].sc < SCORE_THRESHOLD THEN <<"angle_low_score">> ELSE <<>>)
    \o (IF fb[2].sc < SCORE_THRESHOLD THEN <<"temp_low_score">> ELSE <<>>)
    \o (IF fb[3].sc < SCORE_THRESHOLD THEN <<"depth_low_score">> ELSE <<>>)

Status(mistakes) == IF mistakes = <<>> THEN "OK" ELSE "MISTAKE"

\* x if x is not None else "UNREADABLE"
OrUnreadable(v) == [readable |-> v.some, val |-> v]

ResultRecord(id, fb) ==
  LET fin == Finals(fb)
      mistakes == Mistakes(fin, fb)
  IN  [id |-> id,
       status |-> Status(mistakes),
       rotation |-> rot,
       rotation_reason |-> rot_reason,
       values |-> [temp |-> OrUnreadable(fin.temp),
                   depth |-> OrUnreadable(fin.depth),
                   angle |-> OrUnreadable(fin.angle)],
       sources |-> [temp |-> fb[2].src, depth |-> fb[3].src,
                    angle |-> fb[1].src],
       scores |-> [temp |-> fb[2].sc, depth |-> fb[3].sc, angle |-> fb[1].sc],
       raw_text |-> [temp |-> fb[2].txt, depth |-> fb[3].txt,
                     angle |-> fb[1].txt],
       mistakes |-> mistakes]

----------------------------------------------------------------------------
(* Harness of the pure functions: a text is drawn, one function is applied. *)

\* all texts over the characters C of length at most n
RECURSIVE TextsUpTo(_, _)
TextsUpTo(C, n) ==
  IF n = 0 THEN {<<>>}
  ELSE LET T == TextsUpTo(C, n - 1)
       IN  T \cup {Append(t, c) : t \in {u \in T : Len(u) = n - 1}, c \in C}

TempChars == {"0", "3", "5", "7", "8", ".", "-", " "}

TempExamples ==
  {<<"3", "7">>, <<"3", "7", "5">>, <<"9", "6", "3">>,
   <<"8", "1", ".", "0">>, <<"7", ".", "5">>}

TempInputs == TextsUpTo(TempChars, MaxLen) \cup TempExamples

HintChars == {"c", "C", "A_circ", "a_circ", "deg", "1", " "}

HintInputs == TextsUpTo(HintChars, MaxLen)

NoRes == [num |-> NoneNum, flag |-> FALSE]

MainIdle ==
  /\ groups = <<>>
  /\ gi = 0
  /\ pc = "idle"
  /\ out = <<>>
  /\ ok = 0
  /\ bad = 0
  /\ imgsOk = FALSE
  /\ rot = 0
  /\ rot_reason = "none"
  /\ fieldBest = <<>>
  /\ ri = 0
  /\ si = 0
  /\ best = EmptyBest
  /\ probe = <<>>
  /\ sc_sum = 0
  /\ hint_scores = <<>>
  /\ ret = <<>>
  /\ rf_field = "none"
  /\ rf_rot = 0
  /\ rf_si = 0
  /\ rf_best = NoneBest
  /\ nCalls = 0
  /\ readAt = [f \in FieldSet |-> {}]
  /\ sampleSign = <<>>
  /\ nHints = 0
  /\ last = <<>>
  /\ rf_keys = <<>>

InitTemp ==
  /\ fn = "input"
  /\ txt \in TempInputs
  /\ res = NoRes
  /\ MainIdle

ApplyRepairTemp ==
  /\ fn = "input"
  /\ pc = "idle"
  /\ txt \in TempInputs
  /\ fn' = "repair_temp"
  /\ res' = [res EXCEPT !.num = repair_temp(SomeStr(txt))]
  /\ UNCHANGED <<txt, mainVars>>

NextTemp == ApplyRepairTemp

SpecTemp == InitTemp /\ [][NextTemp]_vars

InitHint ==
  /\ fn = "input"
  /\ txt \in HintInputs
  /\ res = NoRes
  /\ MainIdle

ApplyHasTempHint ==
  /\ fn = "input"
  /\ pc = "idle"
  /\ txt \in HintInputs
  /\ fn' = "has_temp_hint"
  /\ res' = [res EXCEPT !.flag = has_temp_hint(txt)]
  /\ UNCHANGED <<txt, mainVars>>

NextHint == ApplyHasTempHint

SpecHint == InitHint /\ [][NextHint]_vars

----------------------------------------------------------------------------
(* main(): one action per step between two recognizer calls or returns.    *)

TextOff == /\ fn = "off" /\ txt = <<>> /\ res = NoRes

Init ==
  /\ TextOff
  /\ groups \in ScanResults
  /\ gi = 0
  /\ pc = "start"
  /\ out = <<>>
  /\ ok = 0
  /\ bad = 0
  /\ imgsOk = FALSE
  /\ rot = 0
  /\ rot_reason = "none"
  /\ fieldBest = <<>>
  /\ ri = 0
  /\ si = 0
  /\ best = EmptyBest
  /\ probe = <<>>
  /\ sc_sum = 0
  /\ hint_scores = <<>>
  /\ ret = <<>>
  /\ rf_field = "none"
  /\ rf_rot = 0
  /\ rf_si = 0
  /\ rf_best = NoneBest
  /\ nCalls = 0
  /\ readAt = [f \in FieldSet |-> {}]
  /\ sampleSign = <<>>
  /\ nHints = 0
  /\ last = <<>>
  /\ rf_keys = <<>>

crFrame == <<ri, si, best, probe, sc_sum, hint_scores, ret, sampleSign, nHints>>

rfFrame == <<rf_field, rf_rot, rf_si, rf_best, rf_keys>>

iterVars == <<imgsOk, rot, rot_reason, fieldBest>>

\* if not groups: return
MainStart ==
  /\ pc = "start"
  /\ pc' = IF groups = <<>> THEN "done" ELSE "loop"
  /\ UNCHANGED <<textVars, groups, gi, out, ok, bad, iterVars, crFrame,
                 rfFrame, nCalls, readAt, last>>

\* the for statement takes the next group; the locals of the iteration
\* before are dead and start afresh, as do the history variables
NextGroup ==
  /\ pc = "loop"
  /\ gi < Len(groups)
  /\ gi' = gi + 1
  /\ pc' = "check_missing"
  /\ imgsOk' = FALSE
  /\ rot' = 0
  /\ rot_reason' = "none"
  /\ fieldBest' = <<>>
  /\ nCalls' = 0
  /\ readAt' = [f \in FieldSet |-> {}]
  /\ UNCHANGED <<textVars, groups, out, ok, bad, crFrame, rfFrame, last>>

\* the loop is over: the summary is printed
Summary ==
  /\ pc = "loop"
  /\ gi = Len(groups)
  /\ pc' = "done"
  /\ UNCHANGED <<textVars, groups, gi, out, ok, bad, iterVars, crFrame,
                 rfFrame, nCalls, readAt, last>>

CheckMissing ==
  /\ pc = "check_missing"
  /\ LET missing == MissingKeys(groups[gi].keys)
     IN  IF missing # <<>>
           THEN /\ bad' = bad + 1
                /\ out' = Append(out, [id |-> groups[gi].id,
                                       status |-> "MISTAKE",
                                       reason |-> "missing_files",
                                       missing |-> missing])
                /\ pc' = "loop"
           ELSE /\ pc' = "imread"
                /\ UNCHANGED <<bad, out>>
  /\ UNCHANGED <<textVars, groups, gi, ok, iterVars, crFrame, rfFrame,
                 nCalls, readAt, last>>

\* the nine imread_any_gray calls; on success choose_rotation is entered
LoadImages ==
  /\ pc = "imread"
  /\ IF \E i \in DOMAIN required : required[i] \in groups[gi].unreadable
       THEN /\ imgsOk' = FALSE
            /\ bad' = bad + 1
            /\ out' = Append(out, [id |-> groups[gi].id,
                                   status |-> "MISTAKE",
                                   reason |-> "cant_read_image"])
            /\ pc' = "loop"
            /\ UNCHANGED <<ri, si, sampleSign>>
       ELSE /\ imgsOk' = TRUE
            /\ pc' = "cr_probe"
            /\ ri' = 1
            /\ si' = 1
            /\ sampleSign' = <<{}>>
            /\ UNCHANGED <<bad, out>>
  /\ UNCHANGED <<textVars, groups, gi, ok, rot, rot_reason, fieldBest, best,
                 probe, sc_sum, hint_scores, ret, nHints, rfFrame, nCalls,
                 readAt, last>>

\* one ocr_once of the probe loop
ProbeCall ==
  /\ pc = "cr_probe"
  /\ \E s \in AngleSamples :
       LET newBest == IF Better(s, best) THEN [txt |-> s.txt, sc |-> s.sc]
                      ELSE best
           seen == [sampleSign EXCEPT ![ri] = @ \cup {sign_first(s.txt)}]
       IN  /\ last' = s
           /\ nCalls' = nCalls + 1
           /\ IF si < Len(SOURCES)
                THEN /\ si' = si + 1
                     /\ best' = newBest
                     /\ sampleSign' = seen
                     /\ UNCHANGED <<ri, probe, pc>>
                ELSE /\ si' = 1
                     /\ best' = EmptyBest
                     /\ probe' = Append(probe, newBest)
                     /\ IF ri < Len(ROTATIONS)
                          THEN /\ ri' = ri + 1
                               /\ sampleSign' = Append(seen, {})
                               /\ pc' = pc
                          ELSE /\ ri' = 0
                               /\ sampleSign' = seen
                               /\ pc' = "cr_tier1"
  /\ UNCHANGED <<textVars, groups, gi, out, ok, bad, iterVars, sc_sum,
                 hint_scores, ret, nHints, rfFrame, readAt>>

\* sign_rots and the first return
Tier1 ==
  /\ pc = "cr_tier1"
  /\ last' = <<>>
  /\ IF Tier1Choice(probe) # <<>>
       THEN /\ ret' = Tier1Choice(probe)
            /\ pc' = "cr_return"
            /\ UNCHANGED <<ri, si>>
       ELSE /\ ret' = ret
            /\ pc' = "cr_hint"
            /\ ri' = 1
            /\ si' = 1
  /\ UNCHANGED <<textVars, groups, gi, out, ok, bad, iterVars, best, probe,
                 sc_sum, hint_scores, sampleSign, nHints, rfFrame, nCalls,
                 readAt>>

\* one ocr_once of the temp loop of the voting tier (the history of the
\* angle samples is dropped once tier 1 has decided)
HintTempCall ==
  /\ pc = "cr_hint"
  /\ si <= Len(SOURCES)
  /\ \E s \in TempSamples :
       /\ has_temp_hint(s.txt) => nHints < MaxHints
       /\ nHints' = nHints + (IF has_temp_hint(s.txt) THEN 1 ELSE 0)
       /\ last' = s
       /\ sc_sum' = sc_sum + HintGain(s, has_temp_hint(s.txt))
  /\ nCalls' = nCalls + 1
  /\ si' = si + 1
  /\ sampleSign' = <<>>
  /\ UNCHANGED <<textVars, groups, gi, out, ok, bad, iterVars, ri, best,
                 probe, hint_scores, ret, pc, rfFrame, readAt>>

\* one ocr_once of the depth loop of the voting tier
HintDepthCall ==
  /\ pc = "cr_hint"
  /\ si > Len(SOURCES)
  /\ \E s \in DepthSamples :
       LET sum == sc_sum + HintGain(s, has_depth_hint(s.txt))
       IN  /\ has_depth_hint(s.txt) => nHints < MaxHints
           /\ nHints' = nHints + (IF has_depth_hint(s.txt) THEN 1 ELSE 0)
           /\ last' = s
           /\ IF si < 2 * Len(SOURCES)
                THEN /\ si' = si + 1
                     /\ sc_sum' = sum
                     /\ UNCHANGED <<ri, hint_scores, pc>>
                ELSE /\ si' = 1
                     /\ sc_sum' = 0
                     /\ hint_scores' = Append(hint_scores, sum)
                     /\ IF ri < Len(ROTATIONS)
                          THEN /\ ri' = ri + 1
                               /\ pc' = pc
                          ELSE /\ ri' = 0
                               /\ pc' = "cr_tier23"
  /\ nCalls' = nCalls + 1
  /\ UNCHANGED <<textVars, groups, gi, out, ok, bad, iterVars, best, probe,
                 ret, sampleSign, rfFrame, readAt>>

\* best_rot and the last two returns
Tier23 ==
  /\ pc = "cr_tier23"
  /\ ret' = Tier23Choice(hint_scores, probe)
  /\ pc' = "cr_return"
  /\ last' = <<>>
  /\ UNCHANGED <<textVars, groups, gi, out, ok, bad, iterVars, ri, si, best,
                 probe, sc_sum, hint_scores, sampleSign, nHints, rfFrame,
                 nCalls, readAt>>

\* rot, rot_reason = choose_rotation(...): the frame is gone
ChooseReturn ==
  /\ pc = "cr_return"
  /\ rot' = ret[1]
  /\ rot_reason' = ret[2]
  /\ ri' = 0
  /\ si' = 0
  /\ best' = EmptyBest
  /\ probe' = <<>>
  /\ sc_sum' = 0
  /\ hint_scores' = <<>>
  /\ ret' = <<>>
  /\ sampleSign' = <<>>
  /\ nHints' = 0
  /\ pc' = "read_call"
  /\ UNCHANGED <<textVars, groups, gi, out, ok, bad, imgsOk, fieldBest,
                 rfFrame, nCalls, readAt, last>>

\* read_field_best(rec_model, <field>_imgs, rot) is entered
CallReadField ==
  /\ pc = "read_call"
  /\ LET field == FIELDS[Len(fieldBest) + 1]
     IN  /\ rf_field' = field
         /\ rf_rot' = FieldRot(field)
  /\ rf_si' = 1
  /\ rf_best' = NoneBest
  /\ rf_keys' = <<>>
  /\ pc' = "rf_loop"
  /\ UNCHANGED <<textVars, groups, gi, out, ok, bad, iterVars, crFrame,
                 nCalls, readAt, last>>

\* one ocr_once of read_field_best
ReadFieldCall ==
  /\ pc = "rf_loop"
  /\ \E s \in Samples(rf_field) :
       /\ last' = s
       /\ rf_keys' = Append(rf_keys, score_key(s.txt, s.sc))
       /\ rf_best' = ReadUpdate(rf_best, rf_si, s)
  /\ readAt' = [readAt EXCEPT ![rf_field] = @ \cup {rf_rot}]
  /\ nCalls' = nCalls + 1
  /\ IF rf_si < Len(SOURCES)
       THEN /\ rf_si' = rf_si + 1
            /\ pc' = pc
       ELSE /\ rf_si' = rf_si
            /\ pc' = "rf_return"
  /\ UNCHANGED <<textVars, groups, gi, out, ok, bad, iterVars, crFrame,
                 rf_field, rf_rot>>

\* <field>_best = read_field_best(...): the frame is gone
ReadReturn ==
  /\ pc = "rf_return"
  /\ fieldBest' = Append(fieldBest, rf_best)
  /\ rf_field' = "none"
  /\ rf_rot' = 0
  /\ rf_si' = 0
  /\ rf_best' = NoneBest
  /\ rf_keys' = <<>>
  /\ last' = <<>>
  /\ pc' = IF Len(fieldBest) + 1 = Len(FIELDS) THEN "classify" ELSE "read_call"
  /\ UNCHANGED <<textVars, groups, gi, out, ok, bad, imgsOk, rot, rot_reason,
                 crFrame, nCalls, readAt>>

\* extraction, repair, the mistakes list, the counters and the record
Classify ==
  /\ pc = "classify"
  /\ LET rec == ResultRecord(groups[gi].id, fieldBest)
     IN  /\ out' = Append(out, rec)
         /\ IF rec.status = "OK"
              THEN ok' = ok + 1 /\ bad' = bad
              ELSE bad' = bad + 1 /\ ok' = ok
  /\ pc' = "loop"
  /\ UNCHANGED <<textVars, groups, gi, iterVars, crFrame, rfFrame, nCalls,
                 readAt, last>>

Next ==
  \/ MainStart
  \/ NextGroup
  \/ Summary
  \/ CheckMissing
  \/ LoadImages
  \/ ProbeCall
  \/ Tier1
  \/ HintTempCall
  \/ HintDepthCall
  \/ Tier23
  \/ ChooseReturn
  \/ CallReadField
  \/ ReadFieldCall
  \/ ReadReturn
  \/ Classify

Spec == Init /\ [][Next]_vars

----------------------------------------------------------------------------
(* Vocabulary of the properties.                                           *)

RotationSet == {ROTATIONS[i] : i \in DOMAIN ROTATIONS}

SourceSet == {SOURCES[i] : i \in DOMAIN SOURCES}

ReasonTags == {"angle_sign_first", "unit_hint", "fallback_best_angle_score"}

CrPcs == {"cr_probe", "cr_tier1", "cr_hint", "cr_tier23", "cr_return"}

ReadPcs == {"read_call", "rf_loop", "rf_return", "classify"}

\* at most 12 probe calls and 24 voting calls
MaxChooseCalls ==
  Len(ROTATIONS) * Len(SOURCES) + Len(ROTATIONS) * 2 * Len(SOURCES)

IdxOfRot(r) == CHOOSE i \in DOMAIN ROTATIONS : ROTATIONS[i] = r

\* the first index of q that holds the largest value among the indices in S
FirstMaxIn(q, S) ==
  CHOOSE i \in S :
    /\ \A j \in S : q[j] <= q[i]
    /\ \A j \in S : j < i => q[j] < q[i]

SignIdx == {i \in DOMAIN probe : sign_first(probe[i].txt)}

ProbesDone == pc \in {"cr_hint", "cr_tier23", "cr_return"}

\* the records of fully evaluated groups
FullRecords == {i \in DOMAIN out : "mistakes" \in DOMAIN out[i]}

InSeq(x, q) == \E i \in DOMAIN q : q[i] = x

----------------------------------------------------------------------------
(* C1: choose_rotation ends, and with exactly one pair <<rotation, tag>>   *)
(* whose rotation is one of 0, 90, -90, 180 and whose tag is one of the    *)
(* three reason tags, whatever the recognizer returned.  Inside            *)
(* choose_rotation a step is always possible and at most 36 recognizer     *)
(* calls are made, so it ends; what it returns and what main() keeps and   *)
(* writes is such a pair.                                                  *)
C1_RotationAndTag ==
  /\ pc \in CrPcs => nCalls <= MaxChooseCalls /\ ENABLED Next
  /\ pc = "cr_return" =>
       /\ Len(ret) = 2
       /\ ret[1] \in RotationSet
       /\ ret[2] \in ReasonTags
  /\ pc \in ReadPcs => rot \in RotationSet /\ rot_reason \in ReasonTags
  /\ \A i \in FullRecords :
       /\ out[i].rotation \in RotationSet
       /\ out[i].rotation_reason \in ReasonTags

C1_Witness ==
  /\ pc = "cr_return"
  /\ ret = <<-90, "fallback_best_angle_score">>
  /\ nCalls = MaxChooseCalls

----------------------------------------------------------------------------
(* C2: once the four probes are taken, if some probe text passes           *)
(* sign_first then choose_rotation returns the tag angle_sign_first and a  *)
(* sign-passing rotation whose probe confidence is the largest among the   *)
(* sign-passing rotations; and if the angle samples were sign-first at     *)
(* rotation 180 only (all of them there, none elsewhere), it returns       *)
(* <<180, angle_sign_first>>.                                              *)
C2_SignTier ==
  /\ ProbesDone /\ SignIdx # {} =>
       /\ pc = "cr_return"
       /\ ret[2] = "angle_sign_first"
       /\ IdxOfRot(ret[1]) \in SignIdx
       /\ \A j \in SignIdx : probe[j].sc <= probe[IdxOfRot(ret[1])].sc
  /\ ProbesDone /\ sampleSign = <<{FALSE}, {FALSE}, {FALSE}, {TRUE}>> =>
       /\ pc = "cr_return"
       /\ ret = <<180, "angle_sign_first">>

\* only rotation 180 has sign-first samples, and the probe of rotation 0 has
\* the higher confidence
C2_Witness ==
  /\ pc = "cr_return"
  /\ sampleSign = <<{FALSE}, {FALSE}, {FALSE}, {TRUE}>>
  /\ ret = <<180, "angle_sign_first">>
  /\ probe[1].sc > probe[4].sc

----------------------------------------------------------------------------
(* C10: temp and depth images are recognized for the vote only when no     *)
(* probe passes sign_first (a sign-tier return has made the 12 probe calls *)
(* and no other); every recognized temp sample that passes has_temp_hint   *)
(* and every depth sample that passes has_depth_hint adds its confidence   *)
(* plus 0.15 to the sum of its rotation and no other sample adds anything; *)
(* the result is <<a rotation of the largest sum, unit_hint>> exactly when *)
(* the largest sum is above 0, and else <<a rotation of the largest probe  *)
(* confidence, fallback_best_angle_score>>.                                *)
C10_VoteInv ==
  /\ pc \in {"cr_hint", "cr_tier23"} => SignIdx = {}
  /\ pc = "cr_return" /\ ret[2] = "angle_sign_first" =>
       /\ hint_scores = <<>>
       /\ nCalls = Len(ROTATIONS) * Len(SOURCES)
  /\ pc = "cr_return" /\ ret[2] # "angle_sign_first" =>
       /\ SignIdx = {}
       /\ Len(hint_scores) = Len(ROTATIONS)
       /\ nCalls = MaxChooseCalls
       /\ LET top == FirstMaxIn(hint_scores, DOMAIN hint_scores)
              r == IdxOfRot(ret[1])
          IN  /\ ret[2] = "unit_hint" <=> hint_scores[top] > 0
              /\ ret[2] = "unit_hint" => hint_scores[r] = hint_scores[top]
              /\ ret[2] # "unit_hint" =>
                   /\ ret[2] = "fallback_best_angle_score"
                   /\ \A j \in DOMAIN probe : probe[j].sc <= probe[r].sc

C10_VoteStep ==
  pc = "cr_hint" =>
    LET s == last'
        passes == IF si <= Len(SOURCES) THEN has_temp_hint(s.txt)
                  ELSE has_depth_hint(s.txt)
        sum == sc_sum + (IF passes THEN s.sc + 15 ELSE 0)
    IN  /\ s \in (IF si <= Len(SOURCES) THEN TempSamples ELSE DepthSamples)
        /\ IF si < 2 * Len(SOURCES)
             THEN sc_sum' = sum /\ hint_scores' = hint_scores
             ELSE sc_sum' = 0 /\ hint_scores' = Append(hint_scores, sum)

\* C10: the vote is taken only without a sign-passing probe, every hinted
\* sample adds its confidence plus 0.15 (C10_VoteStep), and the result is
\* unit_hint exactly when the largest sum is above 0, else the fallback
\* (C10_VoteInv)
C10_VoteTiers == []C10_VoteInv /\ [][C10_VoteStep]_vars

\* a single hinted sample of confidence 0 makes rotation 90 the unit_hint
\* choice
C10_Witness ==
  /\ pc = "cr_return"
  /\ ret = <<90, "unit_hint">>
  /\ hint_scores = <<0, 15, 0, 0>>
  /\ probe[4].sc > probe[2].sc

----------------------------------------------------------------------------
\* the rotation half of C6: each tier returns the first rotation, in the
\* order 0, 90, -90, 180, of those that hold the largest value
C6_RotationTies ==
  pc = "cr_return" =>
    LET r == IdxOfRot(ret[1])
    IN  /\ ret[2] = "angle_sign_first" =>
             r = FirstMaxIn(ProbeScores(probe), SignIdx)
        /\ ret[2] = "unit_hint" =>
             r = FirstMaxIn(hint_scores, DOMAIN hint_scores)
        /\ ret[2] = "fallback_best_angle_score" =>
             r = FirstMaxIn(ProbeScores(probe), DOMAIN probe)

----------------------------------------------------------------------------
SourceOrNone(src, sc, text) ==
  /\ src \in SourceSet \cup {"none"}
  /\ src = "none" => sc = 0 /\ text = <<>>

----------------------------------------------------------------------------
IsFullGroup(g) == g.keys = RequiredSet /\ g.unreadable = {}

\* one field of a record: each reason is listed exactly on its own condition
C3_FieldRule(r, value, score, invalid, low) ==
  /\ InSeq(invalid, r.mistakes) <=> ~value.readable
  /\ InSeq(low, r.mistakes) <=> score < SCORE_THRESHOLD

(* C3: a group whose nine images are present and decodable gets a record   *)
(* with a mistakes list; its status is OK exactly when the list is empty,  *)
(* which is exactly when the three values are readable (not None) and the  *)
(* three recorded scores are at least 0.70; <field>_invalid is listed      *)
(* exactly when the value is None and <field>_low_score exactly when the   *)
(* score is below 0.70, each whatever the other.                           *)
C3_StatusRule ==
  /\ pc \in {"loop", "done"} /\ gi >= 1 /\ IsFullGroup(groups[gi]) =>
       gi \in FullRecords /\ out[gi].id = groups[gi].id
  /\ \A i \in FullRecords :
       LET r == out[i]
       IN  /\ r.status \in {"OK", "MISTAKE"}
           /\ r.status = "OK" <=> r.mistakes = <<>>
           /\ r.mistakes = <<>> <=>
                /\ r.values.angle.readable
                /\ r.values.temp.readable
                /\ r.values.depth.readable
                /\ r.scores.angle >= SCORE_THRESHOLD
                /\ r.scores.temp >= SCORE_THRESHOLD
                /\ r.scores.depth >= SCORE_THRESHOLD
           /\ C3_FieldRule(r, r.values.angle, r.scores.angle,
                           "angle_invalid", "angle_low_score")
           /\ C3_FieldRule(r, r.values.temp, r.scores.temp,
                           "temp_invalid", "temp_low_score")
           /\ C3_FieldRule(r, r.values.depth, r.scores.depth,
                           "depth_invalid", "depth_low_score")

\* both reasons of one field, and nothing else
C3_Witness ==
  \E i \in FullRecords :
    /\ out[i].status = "MISTAKE"
    /\ out[i].mistakes = <<"temp_invalid", "temp_low_score">>
    /\ bad = 1

----------------------------------------------------------------------------
(* C4: a group that lacks one of the nine required keys gets the record    *)
(* {id, status MISTAKE, reason missing_files, missing}, with no rotation,  *)
(* no field value and no mistakes list, and no recognizer call is made     *)
(* for it: its iteration goes from the check straight back to the loop.    *)
(* The record holds the one reason code as the string under "reason".      *)
C4_MissingFiles ==
  gi >= 1 /\ groups[gi].keys # RequiredSet =>
    /\ pc \in {"check_missing", "loop", "done"}
    /\ nCalls = 0
    /\ pc \in {"loop", "done"} =>
         /\ Len(out) = gi
         /\ DOMAIN out[gi] = {"id", "status", "reason", "missing"}
         /\ out[gi].id = groups[gi].id
         /\ out[gi].status = "MISTAKE"
         /\ out[gi].reason = "missing_files"
         /\ \A k \in RequiredSet :
              InSeq(k, out[gi].missing) <=> k \notin groups[gi].keys

\* the group after a fully evaluated one lacks depth_v8
C4_Witness ==
  /\ pc = "loop"
  /\ gi = 2
  /\ 1 \in FullRecords
  /\ out[2].reason = "missing_files"
  /\ out[2].missing = <<"depth_v8">>
  /\ nCalls = 0

----------------------------------------------------------------------------
(* C8: no field is read while choose_rotation runs; a field read happens   *)
(* only after choose_rotation has returned, and every recognizer call of   *)
(* the three field reads of a group uses the rotation it returned, which   *)
(* is the rotation the record holds.                                       *)
C8_OneRotation ==
  /\ pc \in CrPcs \cup {"check_missing", "imread"} =>
       \A f \in FieldSet : readAt[f] = {}
  /\ pc \in ReadPcs => rot_reason \in ReasonTags /\ ret = <<>>
  /\ pc = "rf_loop" \/ pc = "rf_return" => rf_rot = rot
  /\ \A f \in FieldSet :
       readAt[f] # {} => rot_reason \in ReasonTags /\ readAt[f] = {rot}
  /\ pc = "loop" /\ gi \in FullRecords =>
       /\ out[gi].rotation = rot
       /\ out[gi].rotation_reason = rot_reason
       /\ \A f \in FieldSet : readAt[f] = {out[gi].rotation}

C8_Witness ==
  /\ pc = "loop"
  /\ gi \in FullRecords
  /\ out[gi].rotation = 180
  /\ \A f \in FieldSet : readAt[f] = {180}

----------------------------------------------------------------------------
(* C7: repair_temp on a numeric string (sign? digits (. digits)?), read    *)
(* without its sign.  The cascade: with a decimal point, or with at most   *)
(* two digits, the result is the parsed value when that is at most 80.0    *)
(* and None when it is not; for three or more digits without a point the   *)
(* candidates are the first two digits, the last two digits and, for       *)
(* exactly three digits, the first two digits "." the third; those above   *)
(* 80.0 are dropped; the result is the first remaining candidate with a    *)
(* fractional part, else the smallest remaining candidate, else None.      *)
(* The examples: "37" gives 37.0, "375" gives 37.5, "81.0" gives None,     *)
(* "7.5" gives 7.5; and no result for any string is above 80.0.            *)
(* C7_Cascade is what the statement and its amendment share.               *)

\* the value of a float result scaled by 10^f
Scaled(v, f) == v.n * Pow10(f - v.k)

\* the value of digits (. digits)? scaled by 10^f, digit by digit (f is at
\* least the number of digits after the point)
RECURSIVE PlaceSum(_, _, _, _)
PlaceSum(u, dot, f, i) ==
  IF i > Len(u) THEN 0
  ELSE (IF i < dot THEN DigitVal(u[i]) * Pow10(f + dot - 1 - i)
        ELSE IF i > dot THEN DigitVal(u[i]) * Pow10(f - (i - dot))
        ELSE 0)
       + PlaceSum(u, dot, f, i + 1)

Unsigned(t) == IF t # <<>> /\ IsSign(t[1]) THEN Tail(t) ELSE t

C7_Expected(u, f) ==
  LET lim == TEMP_MAX * Pow10(f)
      dot == IF HasChar(u, ".") THEN CHOOSE i \in DOMAIN u : u[i] = "."
             ELSE Len(u) + 1
      n == Len(u)
  IN  IF HasChar(u, ".") \/ n <= 2
        THEN LET v == PlaceSum(u, dot, f, 1)
             IN  IF v <= lim THEN {v} ELSE {}
        ELSE LET first2 == (10 * DigitVal(u[1]) + DigitVal(u[2])) * Pow10(f)
                 last2 == (10 * DigitVal(u[n - 1]) + DigitVal(u[n])) * Pow10(f)
                 dec == first2 + DigitVal(u[3]) * Pow10(f - 1)
                 kept == {c \in {first2, last2} : c <= lim}
                           \cup (IF n = 3 /\ dec <= lim THEN {dec} ELSE {})
             IN  IF n = 3 /\ dec <= lim /\ DigitVal(u[3]) # 0 THEN {dec}
                 ELSE IF kept = {} THEN {}
                 ELSE {CHOOSE c \in kept : \A e \in kept : c <= e}

C7_Example(t, v) == txt = t => res.num = v

C7_Cascade ==
  fn = "repair_temp" =>
    /\ res.num.some => res.num.n <= TEMP_MAX * Pow10(res.num.k)
    /\ IsNumStr(txt) =>
         LET want == C7_Expected(Unsigned(txt), Len(txt))
         IN  /\ want = {} <=> ~res.num.some
             /\ res.num.some => want = {Scaled(res.num, Len(txt))}
    /\ C7_Example(<<"3", "7">>, [some |-> TRUE, n |-> 37, k |-> 0])
    /\ C7_Example(<<"3", "7", "5">>, [some |-> TRUE, n |-> 375, k |-> 1])
    /\ C7_Example(<<"8", "1", ".", "0">>, NoneNum)
    /\ C7_Example(<<"7", ".", "5">>, [some |-> TRUE, n |-> 75, k |-> 1])

(* C7 as stated: the cascade and the examples above, and "963" gives None. *)
C7_AsStated ==
  /\ C7_Cascade
  /\ fn = "repair_temp" => C7_Example(<<"9", "6", "3">>, NoneNum)

(* C7 as amended: the same cascade and examples, but "963" gives 63.0: of  *)
(* its candidates 96, 63 and 96.3 the last two digits are not above 80.0.  *)
C7_TempCascade ==
  /\ C7_Cascade
  /\ fn = "repair_temp" =>
       C7_Example(<<"9", "6", "3">>, [some |-> TRUE, n |-> 63, k |-> 0])

C7_Witness ==
  /\ fn = "repair_temp"
  /\ txt = <<"9", "6", "3">>
  /\ res.num = [some |-> TRUE, n |-> 63, k |-> 0]

----------------------------------------------------------------------------
(* C9: has_temp_hint(text) is true exactly when the lowercased text holds  *)
(* the letter c or the text holds the degree-sign glyph of the             *)
(* implementation (U+00C2 U+00B0); so a text with that glyph and no c is   *)
(* a temperature hint.                                                     *)
C9_TempHint ==
  fn = "has_temp_hint" =>
    (res.flag <=> HasChar(Lower(txt), "c") \/ HasSub(txt, DegreeGlyph))

====
